---- MODULE Spec2Model ----
(***************************************************************************)
(* Model of the errors package: *Error values with an identity tag, Errf   *)
(* factories (Newf), *Errors lists (New/Add), the recursive comparator Is, *)
(* IsFunc, and the two places with shared mutable state (newid and the     *)
(* frames cache of StackFrames).                                           *)
(*                                                                         *)
(* The heap is a sequence of the package's objects; a pointer is an index  *)
(* into it, 0 is nil.  An error made outside the package (fmt.Errorf,      *)
(* os.Open ...) has no fields the package reads: the k-th one made is the  *)
(* pointer -(k+1), of kind "plain".  The heap objects are                  *)
(*   "Error"  *Error   (fields Err, id)                                    *)
(*   "Errf"   an Errf closure (field id: the id captured by Newf)          *)
(*   "Errors" *Errors  (field errs: the slice of *Error pointers)          *)
(* The field fac is a history field: the factory whose call made the       *)
(* *Error, 0 if none.                                                      *)
(* The revision of errors.go modelled is the later one (Add, Errors.Add    *)
(* and New returning error), the one errors_test.go compiles against.      *)
(***************************************************************************)
EXTENDS Integers, Sequences, FiniteSets, TLC

VARIABLES heap, errid, nplain, last, pc, loc, stack, frames, arrays, fpc, fi, fret

vars == <<heap, errid, nplain, last, pc, loc, stack, frames, arrays, fpc, fi, fret>>

\* Bounds of the model.
MaxHeap == 3
MaxPlain == 2
MaxId == 5
MaxLen == 2
NThreads == 2
MaxStack == 2

\* nil, and a non-nil value that is not an error (a string, an int).
Nil == 0
VAL == -1

ErrorObj(err, id) == [kind |-> "Error", Err |-> err, id |-> id, errs |-> <<>>, fac |-> 0]
ErrfObj(id) == [kind |-> "Errf", Err |-> 0, id |-> id, errs |-> <<>>, fac |-> 0]
ErrorsObj == [kind |-> "Errors", Err |-> 0, id |-> 0, errs |-> <<>>, fac |-> 0]

\* The machine state threaded through the functions of the package.
M(h, i, n) == [heap |-> h, errid |-> i, nplain |-> n, panic |-> FALSE]

\* Dynamic type of an interface value.
KindOf(m, e) ==
    IF e > 0 THEN m.heap[e].kind
    ELSE IF e = Nil THEN "nil"
    ELSE IF e = VAL THEN "value"
    ELSE "plain"

\* The type switch "case error": a non-nil value that implements error.
IsErr(e) == e > 0 \/ e < VAL

Alloc(m, o) == [m |-> [m EXCEPT !.heap = Append(@, o)], r |-> Len(m.heap) + 1]

\* newid without the increment.
newidNoIncrement(m) == [m |-> m, r |-> m.errid]

\* r := errid; errid++; return r
newid(m) == [m |-> [m EXCEPT !.errid = @ + 1], r |-> m.errid]

\* fmt.Errorf: a fresh error value that is not of this package.
FmtErrorf(m) == [m |-> [m EXCEPT !.nplain = @ + 1], r |-> 0 - (m.nplain + 2)]

NewError(m, e) ==
    LET c == IF IsErr(e) THEN [m |-> m, r |-> e] ELSE FmtErrorf(m)
        n == newid(c.m)
    IN  Alloc(n.m, ErrorObj(c.r, n.r))

Wrap(m, e) ==
    IF KindOf(m, e) = "Error" THEN [m |-> m, r |-> e]
    ELSE LET c == IF IsErr(e) THEN [m |-> m, r |-> e] ELSE FmtErrorf(m)
             n == newid(c.m)
         IN  Alloc(n.m, ErrorObj(c.r, n.r))

Errorf(m) == LET p == FmtErrorf(m) IN Wrap(p.m, p.r)

Newf(m) == LET n == newid(m) IN Alloc(n.m, ErrfObj(n.r))

\* The closure without "e.id = id": the error keeps the id Wrap gave it.
ErrfCallNoStamp(m, f) ==
    LET e == Errorf(m)
    IN  [m |-> [e.m EXCEPT !.heap[e.r].fac = f], r |-> e.r]

\* A call of the closure returned by Newf: e := Errorf(s, args...); e.id = id.
ErrfCall(m, f) ==
    LET e == Errorf(m)
    IN  [m |-> [e.m EXCEPT !.heap[e.r].id = m.heap[f].id, !.heap[e.r].fac = f],
         r |-> e.r]

True(m) == [m |-> m, r |-> TRUE]
False(m) == [m |-> m, r |-> FALSE]

RECURSIVE Is(_, _, _), ErrorsIs(_, _, _), IsAnyOf(_, _, _, _), AnyIs(_, _, _, _)

\* Is(e, original).  Comparing two interface values that both hold an Errf (a
\* func) panics at run time; the panic unwinds every caller.
Is(m, e, original) ==
    IF m.panic THEN False(m)
    ELSE IF KindOf(m, e) = "Errf" /\ KindOf(m, original) = "Errf"
    THEN False([m EXCEPT !.panic = TRUE])
    ELSE IF e = original THEN True(m)
    ELSE IF KindOf(m, e) = "Errf"
    THEN LET t == ErrfCall(m, e) IN Is(t.m, t.r, original)
    ELSE IF KindOf(m, original) = "Errf"
    THEN LET t == ErrfCall(m, original) IN Is(t.m, e, t.r)
    ELSE LET eok == KindOf(m, e) = "Error"
             ook == KindOf(m, original) = "Error"
             u == IF eok THEN Is(m, m.heap[e].Err, original)
                  ELSE IF ook THEN Is(m, e, m.heap[original].Err)
                  ELSE False(m)
         IN  IF u.r \/ u.m.panic THEN u
             ELSE IF ook /\ eok /\ m.heap[e].id # 0
             THEN [m |-> u.m, r |-> m.heap[e].id = m.heap[original].id]
             ELSE IF KindOf(m, e) = "Errors" THEN ErrorsIs(u.m, e, original)
             ELSE IF KindOf(m, original) = "Errors" THEN ErrorsIs(u.m, original, e)
             ELSE False(u.m)

\* for _, err := range errs.errs { if e.Is(err) { return true } }
IsAnyOf(m, e, errs, i) ==
    IF i > Len(errs) THEN False(m)
    ELSE LET u == ErrorsIs(m, e, errs[i])
         IN  IF u.r \/ u.m.panic THEN u ELSE IsAnyOf(u.m, e, errs, i + 1)

\* for _, err := range e.errs { if Is(err, ee) { return true } }
AnyIs(m, errs, ee, i) ==
    IF i > Len(errs) THEN False(m)
    ELSE LET u == Is(m, errs[i], ee)
         IN  IF u.r \/ u.m.panic THEN u ELSE AnyIs(u.m, errs, ee, i + 1)

\* The method Is of *Errors.
ErrorsIs(m, e, ee) ==
    IF m.panic THEN False(m)
    ELSE IF e = Nil /\ ee = Nil THEN True(m)
    ELSE IF e = Nil \/ ee = Nil THEN False(m)
    ELSE IF KindOf(m, ee) = "Errors" THEN IsAnyOf(m, e, m.heap[ee].errs, 1)
    ELSE AnyIs(m, m.heap[e].errs, ee, 1)

RECURSIVE AppendAll(_, _, _, _)

\* for _, err := range ee.errs { e.errs = append(e.errs, err) }: the range
\* expression is evaluated once, so errs is the slice as it was before the loop.
AppendAll(m, e, errs, i) ==
    IF i > Len(errs) THEN m
    ELSE AppendAll([m EXCEPT !.heap[e].errs = Append(@, errs[i])], e, errs, i + 1)

\* Add that appends a list as one element instead of its elements.
ErrorsAddNoFlatten(m, e, ee) ==
    IF ee # Nil
    THEN LET a == IF e = Nil THEN Alloc(m, ErrorsObj) ELSE [m |-> m, r |-> e]
         IN  IF KindOf(a.m, ee) \in {"Error", "Errors"}
             THEN [m |-> [a.m EXCEPT !.heap[a.r].errs = Append(@, ee)], r |-> a.r]
             ELSE LET n == NewError(a.m, ee)
                  IN  [m |-> [n.m EXCEPT !.heap[a.r].errs = Append(@, n.r)], r |-> a.r]
    ELSE IF e = Nil THEN [m |-> m, r |-> Nil]
    ELSE [m |-> m, r |-> e]

\* The method Add of *Errors; e = Nil is the nil receiver.
ErrorsAdd(m, e, ee) ==
    IF ee # Nil
    THEN LET a == IF e = Nil THEN Alloc(m, ErrorsObj) ELSE [m |-> m, r |-> e]
         IN  IF KindOf(a.m, ee) = "Error"
             THEN [m |-> [a.m EXCEPT !.heap[a.r].errs = Append(@, ee)], r |-> a.r]
             ELSE IF KindOf(a.m, ee) = "Errors"
             THEN [m |-> AppendAll(a.m, a.r, a.m.heap[ee].errs, 1), r |-> a.r]
             ELSE LET n == NewError(a.m, ee)
                  IN  [m |-> [n.m EXCEPT !.heap[a.r].errs = Append(@, n.r)], r |-> a.r]
    ELSE IF e = Nil THEN [m |-> m, r |-> Nil]
    ELSE [m |-> m, r |-> e]

\* New without the nil test.
NewNoNilTest(m, err) == LET a == Alloc(m, ErrorsObj) IN ErrorsAdd(a.m, a.r, err)

New(m, err) ==
    IF err # Nil
    THEN LET a == Alloc(m, ErrorsObj) IN ErrorsAdd(a.m, a.r, err)
    ELSE [m |-> m, r |-> Nil]

\* The package-level Add(e, ee).
Add(m, e, ee) ==
    IF KindOf(m, e) = "Errors" THEN ErrorsAdd(m, e, ee)
    ELSE IF KindOf(m, e) = "Error"
    THEN LET a == Alloc(m, ErrorsObj)
             b == ErrorsAdd(a.m, a.r, e)
         IN  ErrorsAdd(b.m, b.r, ee)
    ELSE New(m, ee)

\* IsFunc that applies fn to the *Error values themselves.
IsFuncNoUnwrap(m, fn, err) ==
    IF KindOf(m, err) = "Errors"
    THEN \E i \in DOMAIN m.heap[err].errs : m.heap[err].errs[i] \in fn
    ELSE err \in fn

\* IsFunc(fn, err); the predicate fn is the set of values it is true of.
IsFunc(m, fn, err) ==
    IF KindOf(m, err) = "Error" THEN m.heap[err].Err \in fn
    ELSE IF KindOf(m, err) = "Errors"
    THEN \E i \in DOMAIN m.heap[err].errs : m.heap[m.heap[err].errs[i]].Err \in fn
    ELSE err \in fn

RECURSIVE Reach(_, _)

\* The objects an error value leads to through Err and errs.
Reach(h, x) ==
    IF x <= 0 THEN {}
    ELSE {x} \cup Reach(h, h[x].Err)
             \cup UNION {Reach(h, h[x].errs[i]) : i \in DOMAIN h[x].errs}

\* Adding ee to the list e keeps the error graph free of cycles (on a cyclic
\* graph Is does not return).
NoCycle(h, e, ee) ==
    IF e <= 0 \/ ee <= 0 THEN TRUE
    ELSE IF h[e].kind # "Errors" THEN TRUE
    ELSE IF h[ee].kind = "Error" THEN e \notin Reach(h, ee)
    ELSE IF h[ee].kind = "Errors"
    THEN \A i \in DOMAIN h[ee].errs : e \notin Reach(h, h[ee].errs[i])
    ELSE TRUE

(***************************************************************************)
(* Sequential use of the package: one goroutine calls the constructors,    *)
(* the factories, New/Add and Is in any order on the values it holds.      *)
(***************************************************************************)
Addrs == 1..Len(heap)

Plains == {0 - (k + 1) : k \in 1..nplain}

\* What a caller can pass where an interface{} is expected, and where an
\* error is expected.
Vals == Addrs \cup Plains \cup {Nil, VAL}
Errs == Addrs \cup Plains \cup {Nil}

OfKind(k) == {x \in Addrs : heap[x].kind = k}

Cur == M(heap, errid, nplain)

\* The list of a *Errors, the empty list for any other value.
Elems(h, x) == IF x > 0 THEN h[x].errs ELSE <<>>

\* The goroutines of the concurrent behaviours are not started.
NoThreads ==
    /\ pc = <<>> /\ loc = <<>>
    /\ stack = <<>> /\ frames = 0 /\ arrays = <<>>
    /\ fpc = <<>> /\ fi = <<>> /\ fret = <<>>

\* last is the record of the last call of the package-level Add, in the
\* behaviours that keep one: its operands, the lists they had, what it returned.
NoCall == [op |-> "none", e |-> 0, ee |-> 0, ret |-> 0, preE |-> <<>>, preEE |-> <<>>]

Init ==
    /\ heap = <<>>
    /\ errid = 1
    /\ nplain = 0
    /\ last = NoCall
    /\ NoThreads

\* The call returned res: the heap and the counters become what the call left.
Commit(res) ==
    /\ Len(res.m.heap) <= MaxHeap
    /\ res.m.nplain <= MaxPlain
    /\ res.m.errid <= MaxId
    /\ \A x \in 1..Len(res.m.heap) : Len(res.m.heap[x].errs) <= MaxLen
    /\ heap' = res.m.heap
    /\ errid' = res.m.errid
    /\ nplain' = res.m.nplain
    /\ UNCHANGED <<pc, loc, stack, frames, arrays, fpc, fi, fret>>

Return(res) == Commit(res) /\ UNCHANGED last

\* An error made outside the package (fmt.Errorf, os.Open).
DoFmtErrorf == Return(FmtErrorf(Cur))

DoNewError == \E e \in Vals : Return(NewError(Cur, e))

DoWrap == \E e \in Vals : Return(Wrap(Cur, e))

DoErrorf == Return(Errorf(Cur))

DoNewf == Return(Newf(Cur))

DoErrfCall == \E f \in OfKind("Errf") : Return(ErrfCall(Cur, f))

\* errs := new(Errors), as the tests do.
DoNewErrors == Return(Alloc(Cur, ErrorsObj))

DoNew == \E err \in Vals : Return(New(Cur, err))

DoErrorsAdd == \E e \in OfKind("Errors") \cup {Nil}, ee \in Vals :
    /\ NoCycle(heap, e, ee)
    /\ Return(ErrorsAdd(Cur, e, ee))

DoAdd == \E e \in Vals, ee \in Vals :
    /\ NoCycle(heap, e, ee)
    /\ Return(Add(Cur, e, ee))

\* Add(e, ee), with the record of the call kept in last.
DoAddLogged == \E e \in Vals, ee \in Vals :
    LET res == Add(Cur, e, ee)
    IN  /\ NoCycle(heap, e, ee)
        /\ Commit(res)
        /\ last' = [op |-> "Add", e |-> e, ee |-> ee, ret |-> res.r,
                    preE |-> Elems(heap, e), preEE |-> Elems(heap, ee)]

\* A call of Is: the *Error values made by the factory calls inside it are
\* dropped when it returns, the ids they took from errid are not.
DoIs == \E e \in Errs, original \in Errs :
    LET res == Is(Cur, e, original)
    IN  /\ res.m.errid <= MaxId
        /\ errid' = res.m.errid
        /\ UNCHANGED <<heap, nplain, last, pc, loc, stack, frames, arrays, fpc, fi, fret>>

\* Errors and factories, compared with Is.
Next ==
    \/ DoFmtErrorf
    \/ DoNewError
    \/ DoWrap
    \/ DoErrorf
    \/ DoNewf
    \/ DoErrfCall
    \/ DoIs

Spec == Init /\ [][Next]_vars

\* Errors collected in lists.
NextSets ==
    \/ DoFmtErrorf
    \/ DoNewError
    \/ DoErrorf
    \/ DoNewErrors
    \/ DoNew
    \/ DoErrorsAdd
    \/ DoAdd

SpecSets == Init /\ [][NextSets]_vars

\* Errors and lists put together with the package-level Add.
NextAdd ==
    \/ DoFmtErrorf
    \/ DoNewError
    \/ DoNew
    \/ DoAddLogged

SpecAdd == Init /\ [][NextAdd]_vars

\* Factories, errors and lists together.
NextAll ==
    \/ DoFmtErrorf
    \/ DoNewError
    \/ DoWrap
    \/ DoErrorf
    \/ DoNewf
    \/ DoErrfCall
    \/ DoNewErrors
    \/ DoNew
    \/ DoErrorsAdd
    \/ DoAdd
    \/ DoIs

SpecAll == Init /\ [][NextAll]_vars

(***************************************************************************)
(* Properties of the comparator and of the identity tags.                  *)
(***************************************************************************)

\* The errors a call of the factory f returned.
MadeBy(f) == {x \in OfKind("Error") : heap[x].fac = f}

Made == {x \in OfKind("Error") : heap[x].fac # 0}

\* C1: two errors returned by calls of the same factory are Is-equal, and an
\* error returned by a factory Is the uninvoked factory: for the calls made so
\* far, whatever was constructed between them, and for the next two calls.
FactoryErrorsAreEqual ==
    \A f \in OfKind("Errf") :
        /\ \A a \in MadeBy(f), b \in MadeBy(f) : Is(Cur, a, b).r /\ Is(Cur, a, f).r
        /\ LET a == ErrfCall(Cur, f)
               b == ErrfCall(a.m, f)
           IN  Is(b.m, a.r, b.r).r /\ Is(b.m, a.r, f).r

\* Two different errors of one factory exist and compare equal.
FactoryErrorsAreEqualWitness ==
    \E f \in OfKind("Errf") : \E a \in MadeBy(f), b \in MadeBy(f) :
        a # b /\ Is(Cur, a, b).r /\ Is(Cur, b, f).r

\* C2: the id of a factory is the id of no other factory and of no *Error
\* but the ones its own calls returned, and errors of two different factories
\* are not Is-equal: for the calls made so far and for the next calls.
DistinctFactoriesDiffer ==
    /\ \A f \in OfKind("Errf"), x \in Addrs :
           (x # f /\ heap[x].kind # "Errors" /\ heap[x].id = heap[f].id)
               => x \in MadeBy(f)
    /\ \A a \in Made, b \in Made :
           heap[a].fac # heap[b].fac => ~Is(Cur, a, b).r
    /\ \A f \in OfKind("Errf"), g \in OfKind("Errf") :
           f # g => LET a == ErrfCall(Cur, f)
                        b == ErrfCall(a.m, g)
                    IN  /\ ~Is(b.m, a.r, b.r).r
                        /\ \A x \in MadeBy(f) : ~Is(Cur, x, g).r

\* Two factories exist, one of them has been called, and its error is not
\* Is-equal to the other factory.
DistinctFactoriesDifferWitness ==
    \E f \in OfKind("Errf"), g \in OfKind("Errf") : \E a \in MadeBy(f) :
        f # g /\ ~Is(Cur, a, g).r /\ Is(Cur, a, f).r

\* C9: the structural unwrap applies on both sides of Is: if original is an
\* *Error and Is(e, original.Err) then Is(e, original), and if e is an *Error
\* and Is(e.Err, original) then Is(e, original).
UnwrapOnBothSides ==
    \A e \in Errs, original \in Errs :
        /\ (KindOf(Cur, original) = "Error" /\ Is(Cur, e, heap[original].Err).r)
               => Is(Cur, e, original).r
        /\ (KindOf(Cur, e) = "Error" /\ Is(Cur, heap[e].Err, original).r)
               => Is(Cur, e, original).r

(***************************************************************************)
(* Properties of the lists.                                                *)
(***************************************************************************)
Sets == OfKind("Errors")

\* What the value v, whose list was pre before the call, brought into a list:
\* the elements it had if v is a list, v itself if v is an *Error, and
\* otherwise one *Error around v (around an error made of v if v is no error).
ComesFrom(part, v, pre) ==
    IF KindOf(Cur, v) = "Errors" THEN part = pre
    ELSE IF KindOf(Cur, v) = "Error" THEN part = <<v>>
    ELSE /\ Len(part) = 1
         /\ IF IsErr(v) THEN heap[part[1]].Err = v
            ELSE KindOf(Cur, heap[part[1]].Err) = "plain"

Count(v, pre) == IF KindOf(Cur, v) = "Errors" THEN Len(pre) ELSE 1

\* C3: for non-nil e and ee the list returned by Add(e, ee) is the elements
\* coming from e followed by the elements coming from ee.
AddContainsBoth ==
    (last.op = "Add" /\ last.e # Nil /\ last.ee # Nil) =>
        /\ last.ret # Nil
        /\ LET errs == heap[last.ret].errs
               n == Count(last.e, last.preE)
           IN  /\ Len(errs) = n + Count(last.ee, last.preEE)
               /\ ComesFrom(SubSeq(errs, 1, n), last.e, last.preE)
               /\ ComesFrom(SubSeq(errs, n + 1, Len(errs)), last.ee, last.preEE)

\* C4: A.Add(B) for lists A and B, B being A included, returns the list whose
\* elements are the ones A had followed by the ones B had, and no element of
\* a list is a list.
AddFlattens ==
    /\ \A A \in Sets \cup {Nil}, B \in Sets :
           LET r == ErrorsAdd(Cur, A, B)
           IN  /\ r.r # Nil
               /\ A # Nil => r.r = A
               /\ r.m.heap[r.r].errs = Elems(heap, A) \o Elems(heap, B)
               /\ Len(r.m.heap[r.r].errs) = Len(Elems(heap, A)) + Len(Elems(heap, B))
               /\ \A i \in DOMAIN r.m.heap[r.r].errs :
                      r.m.heap[r.m.heap[r.r].errs[i]].kind = "Error"
    /\ \A S \in Sets : \A i \in DOMAIN heap[S].errs : heap[heap[S].errs[i]].kind = "Error"

\* A list with elements that was appended to another list with elements, and
\* a list with elements appended to itself.
AddFlattensWitness ==
    \E A \in Sets, B \in Sets :
        /\ A # B /\ Len(heap[B].errs) >= 1
        /\ Len(heap[A].errs) >= 2
        /\ ErrorsAdd(Cur, B, B).m.heap[B].errs = heap[B].errs \o heap[B].errs
        /\ \E k \in 1..Len(heap[A].errs) :
               SubSeq(heap[A].errs, k, Len(heap[A].errs)) = heap[B].errs

\* C7: Add(nil) returns the receiver and changes nothing, and with a nil
\* receiver, or with nothing to add, the result is nil.
AddNilIsNoOp ==
    /\ \A S \in Sets : /\ ErrorsAdd(Cur, S, Nil) = [m |-> Cur, r |-> S]
                       /\ Add(Cur, S, Nil) = [m |-> Cur, r |-> S]
    /\ ErrorsAdd(Cur, Nil, Nil) = [m |-> Cur, r |-> Nil]
    /\ New(Cur, Nil) = [m |-> Cur, r |-> Nil]
    /\ \A e \in Vals \ Addrs : Add(Cur, e, Nil) = [m |-> Cur, r |-> Nil]

\* A list with elements, to which nil is added.
AddNilIsNoOpWitness ==
    \E S \in Sets :
        /\ Len(heap[S].errs) >= 2
        /\ ErrorsAdd(Cur, S, Nil).m.heap[S].errs = heap[S].errs
        /\ New(Cur, Nil).r = Nil

\* The predicates: fn is the set of the values it is true of; the ones true
\* of no value, of one and of two.
Predicates == {{}} \cup {{a, b} : a \in Errs, b \in Errs}

\* C6: IsFunc(fn, err) is fn(err.Err) for an *Error, fn(el.Err) for some
\* element el for a list, fn(err) for any other err; so a failure p of which
\* fn is true is detected after NewError wrapped it, after the wrapped failure
\* was added to a list, and after the failure itself was added to a list.
IsFuncSeesUnderlying ==
    /\ \A fn \in Predicates, err \in Errs :
           IsFunc(Cur, fn, err) =
               IF KindOf(Cur, err) = "Error" THEN heap[err].Err \in fn
               ELSE IF KindOf(Cur, err) = "Errors"
               THEN \E i \in DOMAIN heap[err].errs : heap[heap[err].errs[i]].Err \in fn
               ELSE err \in fn
    /\ \A p \in Errs \ {Nil} :
           LET e == NewError(Cur, p)
               n == New(e.m, e.r)
           IN  /\ IsFunc(e.m, {p}, e.r)
               /\ IsFunc(n.m, {p}, n.r)
               /\ \A S \in Sets \cup {Nil} :
                      LET a == ErrorsAdd(e.m, S, e.r)
                          b == ErrorsAdd(Cur, S, p)
                      IN  /\ IsFunc(a.m, {p}, a.r)
                          /\ KindOf(Cur, p) \notin {"Error", "Errors"}
                                 => IsFunc(b.m, {p}, b.r)

\* A list of two wrapped failures, fn true of the second one only; and a list
\* with elements of none of which fn is true.
IsFuncSeesUnderlyingWitness ==
    \E S \in Sets :
        LET errs == heap[S].errs
        IN  /\ Len(errs) = 2
            /\ heap[errs[1]].Err # heap[errs[2]].Err
            /\ KindOf(Cur, heap[errs[2]].Err) = "plain"
            /\ IsFunc(Cur, {heap[errs[2]].Err}, S)
            /\ IsFunc(Cur, {heap[errs[2]].Err}, errs[2])
            /\ ~IsFunc(Cur, {errs[2]}, S)

\* C5: for a list S with at least one element and an error x (a value the
\* caller holds, or NewError of one), Is(S, x) is true exactly if Is(el, x) is
\* true for an element el of S.
IffSomeElement(m, S, x) ==
    Is(m, S, x).r <=> \E i \in DOMAIN m.heap[S].errs : Is(m, m.heap[S].errs[i], x).r

ListIsIffElementIs ==
    \A S \in Sets :
        Len(heap[S].errs) >= 1 =>
            /\ \A x \in Errs \ {Nil, S} : IffSomeElement(Cur, S, x)
            /\ \A v \in Errs \ {Nil} :
                   LET x == NewError(Cur, v) IN IffSomeElement(x.m, S, x.r)

(***************************************************************************)
(* Goroutines constructing errors and factories at the same time.  newid   *)
(* takes no lock and uses no atomic operation: "r := errid" is a load and  *)
(* "errid++" is a load followed by a store, and the steps of the           *)
(* goroutines interleave.                                                  *)
(***************************************************************************)
Threads == 1..NThreads

NoLocal == [op |-> "none", r |-> 0, tmp |-> 0]

InitNewid ==
    /\ heap = <<>>
    /\ errid = 1
    /\ nplain = 0
    /\ last = NoCall
    /\ pc = [t \in Threads |-> "idle"]
    /\ loc = [t \in Threads |-> NoLocal]
    /\ stack = <<>> /\ frames = 0 /\ arrays = <<>>
    /\ fpc = <<>> /\ fi = <<>> /\ fret = <<>>

Running == {t \in Threads : pc[t] # "idle"}

\* The goroutine t calls Newf, or NewError on an error made outside.
CallConstructor(t) ==
    /\ pc[t] = "idle"
    /\ Len(heap) + Cardinality(Running) < MaxHeap
    /\ \E op \in {"Newf", "NewError"} :
           loc' = [loc EXCEPT ![t] = [NoLocal EXCEPT !.op = op]]
    /\ pc' = [pc EXCEPT ![t] = "read"]
    /\ UNCHANGED <<heap, errid, nplain, last, stack, frames, arrays, fpc, fi, fret>>

\* r := errid
NewidRead(t) ==
    /\ pc[t] = "read"
    /\ loc' = [loc EXCEPT ![t].r = errid]
    /\ pc' = [pc EXCEPT ![t] = "load"]
    /\ UNCHANGED <<heap, errid, nplain, last, stack, frames, arrays, fpc, fi, fret>>

\* errid++, the load
NewidLoad(t) ==
    /\ pc[t] = "load"
    /\ loc' = [loc EXCEPT ![t].tmp = errid]
    /\ pc' = [pc EXCEPT ![t] = "store"]
    /\ UNCHANGED <<heap, errid, nplain, last, stack, frames, arrays, fpc, fi, fret>>

\* errid++, the store
NewidStore(t) ==
    /\ pc[t] = "store"
    /\ errid' = loc[t].tmp + 1
    /\ pc' = [pc EXCEPT ![t] = "return"]
    /\ UNCHANGED <<heap, nplain, last, loc, stack, frames, arrays, fpc, fi, fret>>

\* return r, and the constructor makes its value with that id.
ConstructorReturn(t) ==
    /\ pc[t] = "return"
    /\ IF loc[t].op = "Newf"
       THEN heap' = Append(heap, ErrfObj(loc[t].r)) /\ UNCHANGED nplain
       ELSE /\ heap' = Append(heap, ErrorObj(0 - (nplain + 2), loc[t].r))
            /\ nplain' = nplain + 1
    /\ pc' = [pc EXCEPT ![t] = "idle"]
    /\ loc' = [loc EXCEPT ![t] = NoLocal]
    /\ UNCHANGED <<errid, last, stack, frames, arrays, fpc, fi, fret>>

NextNewid == \E t \in Threads :
    \/ CallConstructor(t)
    \/ NewidRead(t)
    \/ NewidLoad(t)
    \/ NewidStore(t)
    \/ ConstructorReturn(t)

SpecNewid == InitNewid /\ [][NextNewid]_vars

\* C8: no two constructions obtain the same id, and errors of two factories
\* made at the same time are not Is-equal.
ConcurrentIdsAreUnique ==
    /\ \A x \in Addrs, y \in Addrs : x # y => heap[x].id # heap[y].id
    /\ \A f \in OfKind("Errf"), g \in OfKind("Errf") :
           f # g => LET a == ErrfCall(Cur, f)
                        b == ErrfCall(a.m, g)
                    IN  ~Is(b.m, a.r, b.r).r

(***************************************************************************)
(* Goroutines calling StackFrames() on one *Error whose frames are not     *)
(* resolved yet.  err.frames is nil (0) or points to an array of arrays;   *)
(* make() gives an array of zero StackFrame values.                        *)
(***************************************************************************)
ZeroFrame == [ProgramCounter |-> 0, resolved |-> FALSE]

NewStackFrame(p) == [ProgramCounter |-> p, resolved |-> TRUE]

InitFrames ==
    /\ heap = <<>>
    /\ errid = 1
    /\ nplain = 0
    /\ last = NoCall
    /\ pc = <<>> /\ loc = <<>>
    /\ \E n \in 1..MaxStack : stack = [i \in 1..n |-> i]
    /\ frames = 0
    /\ arrays = <<>>
    /\ fpc = [t \in Threads |-> "start"]
    /\ fi = [t \in Threads |-> 0]
    /\ fret = [t \in Threads |-> 0]

\* if err.frames == nil
FramesTest(t) ==
    /\ fpc[t] = "start"
    /\ fpc' = [fpc EXCEPT ![t] = IF frames = 0 THEN "make" ELSE "return"]
    /\ UNCHANGED <<heap, errid, nplain, last, pc, loc, stack, frames, arrays, fi, fret>>

\* err.frames = make([]StackFrame, len(err.stack))
FramesMake(t) ==
    /\ fpc[t] = "make"
    /\ arrays' = Append(arrays, [i \in 1..Len(stack) |-> ZeroFrame])
    /\ frames' = Len(arrays) + 1
    /\ fi' = [fi EXCEPT ![t] = 1]
    /\ fpc' = [fpc EXCEPT ![t] = "fill"]
    /\ UNCHANGED <<heap, errid, nplain, last, pc, loc, stack, fret>>

\* for i, pc := range err.stack { err.frames[i] = NewStackFrame(pc) }
FramesFill(t) ==
    /\ fpc[t] = "fill"
    /\ IF fi[t] <= Len(stack)
       THEN /\ arrays' = [arrays EXCEPT ![frames][fi[t]] = NewStackFrame(stack[fi[t]])]
            /\ fi' = [fi EXCEPT ![t] = @ + 1]
            /\ UNCHANGED fpc
       ELSE /\ fpc' = [fpc EXCEPT ![t] = "return"]
            /\ UNCHANGED <<arrays, fi>>
    /\ UNCHANGED <<heap, errid, nplain, last, pc, loc, stack, frames, fret>>

\* return err.frames
FramesReturn(t) ==
    /\ fpc[t] = "return"
    /\ fret' = [fret EXCEPT ![t] = frames]
    /\ fpc' = [fpc EXCEPT ![t] = "done"]
    /\ UNCHANGED <<heap, errid, nplain, last, pc, loc, stack, frames, arrays, fi>>

\* The goroutine calls StackFrames() again.
FramesAgain(t) ==
    /\ fpc[t] = "done"
    /\ fpc' = [fpc EXCEPT ![t] = "start"]
    /\ UNCHANGED <<heap, errid, nplain, last, pc, loc, stack, frames, arrays, fi, fret>>

NextFrames == \E t \in Threads :
    \/ FramesTest(t)
    \/ FramesMake(t)
    \/ FramesFill(t)
    \/ FramesReturn(t)
    \/ FramesAgain(t)

SpecFrames == InitFrames /\ [][NextFrames]_vars

Resolved == [i \in 1..Len(stack) |-> NewStackFrame(stack[i])]

\* C10: what a call of StackFrames() returned is the complete sequence, one
\* resolved frame for each captured program counter, in the order of capture.
FramesCompleteOnReturn ==
    \A t \in Threads : fpc[t] = "done" => arrays[fret[t]] = Resolved

====
